---- MODULE Spec2Model ----
(***************************************************************************)
(* Adjustment Entry (erpnext/accounts/doctype/adjustment_entry): netting   *)
(* of outstanding receivables against outstanding payables, allocation,    *)
(* summary totals and general-ledger postings.                             *)
(*                                                                         *)
(* Amounts are fixed-point integers: Unit is one step of the field         *)
(* precision (what flt(x, precision) rounds to), so a value that is not a  *)
(* multiple of Unit carries more decimals than the field stores.           *)
(***************************************************************************)
EXTENDS Integers, Sequences, FiniteSets, TLC

VARIABLES customer, supplier, customer_account_currency,
          supplier_account_currency, payment_currency, company_currency,
          allocate_payment_amount, debit_entries, credit_entries,
          exchange_rates, receivable_adjusted, payable_adjusted,
          total_balance, total_gain_loss, difference_amount,
          docstatus, gl_posted, last

header == <<customer, supplier, customer_account_currency,
            supplier_account_currency, payment_currency, company_currency>>

totals == <<receivable_adjusted, payable_adjusted, total_balance,
            total_gain_loss, difference_amount>>

vars == <<header, allocate_payment_amount, debit_entries, credit_entries,
          exchange_rates, totals, docstatus, gl_posted, last>>

-----------------------------------------------------------------------------
(* Bounds *)

\* Rows in one reference table.
MaxRows == 2
\* Largest outstanding amount of a row offered to the allocation, in half Units.
MaxAmt == 3
\* One step of the field precision, in fixed-point steps.
Unit == 4

Currencies == {"INR", "USD"}

\* Quotes of the exchange-rate service; 0 stands for "no rate found".
Quotes == {0, 2}

-----------------------------------------------------------------------------
(* Arithmetic helpers *)

abs(x) == IF x < 0 THEN -x ELSE x

Min(a, b) == IF a <= b THEN a ELSE b

\* frappe.utils.flt(x): a number stays the number.
flt(x) == x

\* frappe.utils.flt(x, precision): x rounded to the field precision, halves up.
flt_p(x) == ((2 * x + Unit) \div (2 * Unit)) * Unit

RECURSIVE sum(_)
sum(s) == IF s = <<>> THEN 0 ELSE Head(s) + sum(Tail(s))

Column(entries, f) == [i \in DOMAIN entries |-> entries[i][f]]

\* All orders in which the elements of a finite set can be listed.
RECURSIVE Orders(_)
Orders(S) ==
    IF S = {} THEN {<<>>}
    ELSE UNION {{<<x>> \o r : r \in Orders(S \ {x})} : x \in S}

\* Lists without repetition of at most n elements of S, in any order.
Lists(S, n) == UNION {Orders(T) : T \in {U \in SUBSET S : Cardinality(U) <= n}}

-----------------------------------------------------------------------------
(* Outstanding vouchers of the customer and of the supplier, as the ledger  *)
(* queries return them after get_extra_invoice_details has added the        *)
(* voucher's currency and exchange rate.                                    *)

Invoice(t, n, c, r, o) ==
    [voucher_type |-> t, voucher_no |-> n, currency |-> c,
     exchange_rate |-> r, outstanding_amount |-> o]

\* get_positive_outstanding_entries('debit_entries')
CustomerInvoices ==
    {Invoice("Sales Invoice", "SINV-1", "USD", 2, 3 * Unit)}

\* get_negative_outstanding_entries('debit_entries')
CustomerCreditNotes ==
    {Invoice("Journal Entry", "JV-1", "INR", 1, -2 * Unit)}

\* get_positive_outstanding_entries('credit_entries')
SupplierInvoices ==
    {Invoice("Purchase Invoice", "PINV-1", "USD", 1, Unit)}

\* get_negative_outstanding_entries('credit_entries')
SupplierDebitNotes ==
    {Invoice("Purchase Invoice", "PINV-2", "INR", 1, -Unit)}

\* What the four ledger queries of one fetch can return together.
Fetches ==
    {f \in [si : Lists(CustomerInvoices, MaxRows),
            cn : Lists(CustomerCreditNotes, MaxRows),
            pi : Lists(SupplierInvoices, MaxRows),
            dn : Lists(SupplierDebitNotes, MaxRows)] :
        /\ Len(f.si) + Len(f.dn) <= MaxRows
        /\ Len(f.pi) + Len(f.cn) <= MaxRows}

AllInvoices ==
    CustomerInvoices \cup CustomerCreditNotes \cup SupplierInvoices
        \cup SupplierDebitNotes

-----------------------------------------------------------------------------
(* Exchange rates *)

FxPairs == {p \in Currencies \X Currencies : p[1] # p[2]}

\* The rates the exchange-rate service quotes at one moment: one rate for
\* every pair of different currencies.
FxTables == {[p \in FxPairs |-> q] : q \in Quotes}

\* erpnext.setup.utils.get_exchange_rate
get_exchange_rate(from_currency, to_currency, fx) ==
    IF from_currency = to_currency THEN 1 ELSE fx[<<from_currency, to_currency>>]

\* Python's "x or 1" on a number.
or_1(x) == IF x = 0 THEN 1 ELSE x

\* add_invoice_currency_exchange_rate without the test for a present record.
add_invoice_currency_exchange_rate_again(rates, currency, pay, base, fx) ==
    Append(rates,
      [currency |-> currency,
       exchange_rate_to_payment_currency |->
           or_1(get_exchange_rate(currency, pay, fx)),
       exchange_rate_to_base_currency |->
           or_1(get_exchange_rate(currency, base, fx))])

add_invoice_currency_exchange_rate(rates, currency, pay, base, fx) ==
    IF \E i \in DOMAIN rates : rates[i].currency = currency
    THEN rates
    ELSE Append(rates,
           [currency |-> currency,
            exchange_rate_to_payment_currency |->
                or_1(get_exchange_rate(currency, pay, fx)),
            exchange_rate_to_base_currency |->
                or_1(get_exchange_rate(currency, base, fx))])

RECURSIVE add_all_currencies(_, _, _, _, _)
add_all_currencies(rates, currencies, pay, base, fx) ==
    IF currencies = <<>> THEN rates
    ELSE add_all_currencies(
           add_invoice_currency_exchange_rate(rates, Head(currencies), pay, base, fx),
           Tail(currencies), pay, base, fx)

EntryCurrencies(entries) == {entries[i].currency : i \in DOMAIN entries}

\* The lists list(set(...)) can give for the currencies of entries.
CurrencyLists(entries) == Orders(EntryCurrencies(entries))

\* get_exchange_rates(entries), with listed the outcome of list(set(...)).
get_exchange_rates(listed, pay, base, fx) ==
    LET currencies ==
            IF \E i \in DOMAIN listed : listed[i] = pay
            THEN listed ELSE Append(listed, pay)
    IN add_all_currencies(<<>>, currencies, pay, base, fx)

RateCurrencies(rates) == {rates[i].currency : i \in DOMAIN rates}

\* exchange_rates_to_dict: a later record of a currency overwrites an earlier one.
exchange_rates_to_dict(rates) ==
    [c \in RateCurrencies(rates) |->
        LET i == CHOOSE k \in DOMAIN rates :
                    /\ rates[k].currency = c
                    /\ \A j \in DOMAIN rates : rates[j].currency = c => j <= k
        IN [exchange_rate_to_payment_currency |->
                rates[i].exchange_rate_to_payment_currency,
            exchange_rate_to_base_currency |->
                rates[i].exchange_rate_to_base_currency]]

-----------------------------------------------------------------------------
(* Reference rows *)

\* Adjustment Entry Reference.recalculate_amounts
recalculate_amounts(ent, parentfield, rates_dict) ==
    LET r   == rates_dict[ent.currency]
        per == r.exchange_rate_to_payment_currency
        vpa == ent.voucher_amount * per
        in_entry_currency == ent.allocated_amount \div per
        booked  == in_entry_currency * ent.exchange_rate
        current == in_entry_currency * r.exchange_rate_to_base_currency
    IN [ent EXCEPT
          !.payment_exchange_rate = per,
          !.voucher_payment_amount = vpa,
          !.balance = vpa - ent.allocated_amount,
          !.gain_loss_amount =
              IF parentfield = "debit_entries"
              THEN current - booked ELSE booked - current]

\* self.append(field_name, {...}): a new row, its amounts not yet set.
new_row(invoice) ==
    [voucher_type |-> invoice.voucher_type,
     voucher_number |-> invoice.voucher_no,
     currency |-> "", exchange_rate |-> 1,
     voucher_base_amount |-> 0, voucher_amount |-> 0,
     payment_exchange_rate |-> 1, voucher_payment_amount |-> 0,
     allocated_amount |-> 0, balance |-> 0, gain_loss_amount |-> 0]

set_reference_entry_details(ent, invoice, parentfield, party_account_currency, base, rates_dict) ==
    LET e1 == [ent EXCEPT !.currency = invoice.currency,
                          !.exchange_rate = invoice.exchange_rate]
        e2 == IF party_account_currency # base
              THEN [e1 EXCEPT
                      !.voucher_base_amount =
                          abs(invoice.outstanding_amount * e1.exchange_rate),
                      !.voucher_amount = abs(invoice.outstanding_amount)]
              ELSE [e1 EXCEPT
                      !.voucher_base_amount = abs(invoice.outstanding_amount),
                      !.voucher_amount =
                          abs(abs(invoice.outstanding_amount) \div e1.exchange_rate)]
    IN recalculate_amounts(e2, parentfield, rates_dict)

add_invoice_entries(invoices, field_name, party_account_currency, base, rates_dict) ==
    [i \in DOMAIN invoices |->
        set_reference_entry_details(new_row(invoices[i]), invoices[i], field_name,
                                    party_account_currency, base, rates_dict)]

-----------------------------------------------------------------------------
(* Steps a handler takes, in the order it takes them: the names of the      *)
(* events recorded in last.trace.                                           *)

Ev(what, arg) == <<what, arg>>

RateEvents(rates) == [i \in DOMAIN rates |-> Ev("rate", rates[i].currency)]

RecalcEvents(entries) == [i \in DOMAIN entries |-> Ev("recalc", entries[i].currency)]

-----------------------------------------------------------------------------
(* Summary totals *)

calculate_summary_totals(debit, credit) ==
    LET ra == flt_p(sum(Column(debit, "allocated_amount")))
        pa == flt_p(sum(Column(credit, "allocated_amount")))
    IN [receivable_adjusted |-> ra,
        payable_adjusted |-> pa,
        total_balance |->
            abs(sum(Column(debit, "balance")) - sum(Column(credit, "balance"))),
        total_gain_loss |->
            sum(Column(debit, "gain_loss_amount"))
                + sum(Column(credit, "gain_loss_amount")),
        difference_amount |-> flt_p(abs(ra - pa))]

StoredTotals ==
    [receivable_adjusted |-> receivable_adjusted,
     payable_adjusted |-> payable_adjusted,
     total_balance |-> total_balance,
     total_gain_loss |-> total_gain_loss,
     difference_amount |-> difference_amount]

-----------------------------------------------------------------------------
(* get_unreconciled_entries *)

\* check_mandatory_to_fetch: company is set on every document modelled.
check_mandatory_to_fetch ==
    IF customer = "" THEN "Please select Customer first"
    ELSE IF supplier = "" THEN "Please select Supplier first"
    ELSE ""

get_entries(sales_invoices, credit_notes, purchase_invoices, debit_notes, listed, fx) ==
    LET rates == get_exchange_rates(listed, payment_currency, company_currency, fx)
        d     == exchange_rates_to_dict(rates)
        deb   == add_invoice_entries(sales_invoices \o debit_notes, "debit_entries",
                     customer_account_currency, company_currency, d)
        cre   == add_invoice_entries(purchase_invoices \o credit_notes, "credit_entries",
                     supplier_account_currency, company_currency, d)
    IN [exchange_rates |-> rates, debit_entries |-> deb, credit_entries |-> cre,
        trace |-> RateEvents(rates) \o RecalcEvents(deb) \o RecalcEvents(cre)]

\* get_unreconciled_entries leaving the allocation flag as it finds it.
get_unreconciled_entries_keeping_flag(sales_invoices, credit_notes, purchase_invoices, debit_notes, listed, fx) ==
    LET err == check_mandatory_to_fetch
        got == get_entries(sales_invoices, credit_notes, purchase_invoices,
                           debit_notes, listed, fx)
    IN IF err # ""
       THEN [error |-> err, allocate_payment_amount |-> allocate_payment_amount,
             exchange_rates |-> exchange_rates,
             debit_entries |-> debit_entries, credit_entries |-> credit_entries,
             totals |-> StoredTotals, trace |-> <<>>]
       ELSE [error |-> "", allocate_payment_amount |-> allocate_payment_amount,
             exchange_rates |-> got.exchange_rates,
             debit_entries |-> got.debit_entries,
             credit_entries |-> got.credit_entries,
             totals |-> calculate_summary_totals(got.debit_entries, got.credit_entries),
             trace |-> got.trace \o <<Ev("totals", "")>>]

get_unreconciled_entries(sales_invoices, credit_notes, purchase_invoices, debit_notes, listed, fx) ==
    LET err == check_mandatory_to_fetch
        got == get_entries(sales_invoices, credit_notes, purchase_invoices,
                           debit_notes, listed, fx)
    IN IF err # ""
       THEN [error |-> err, allocate_payment_amount |-> FALSE,
             exchange_rates |-> exchange_rates,
             debit_entries |-> debit_entries, credit_entries |-> credit_entries,
             totals |-> StoredTotals, trace |-> <<>>]
       ELSE [error |-> "", allocate_payment_amount |-> FALSE,
             exchange_rates |-> got.exchange_rates,
             debit_entries |-> got.debit_entries,
             credit_entries |-> got.credit_entries,
             totals |-> calculate_summary_totals(got.debit_entries, got.credit_entries),
             trace |-> got.trace \o <<Ev("totals", "")>>]

-----------------------------------------------------------------------------
(* recalculate_tables *)

recalculate_rows(entries, parentfield, rates_dict) ==
    [i \in DOMAIN entries |-> recalculate_amounts(entries[i], parentfield, rates_dict)]

\* recalculate_references computing the totals before it recalculates the rows.
recalculate_references_totals_first(rates) ==
    LET d   == exchange_rates_to_dict(rates)
        deb == recalculate_rows(debit_entries, "debit_entries", d)
        cre == recalculate_rows(credit_entries, "credit_entries", d)
    IN [debit_entries |-> deb, credit_entries |-> cre,
        totals |-> calculate_summary_totals(debit_entries, credit_entries),
        trace |-> <<Ev("totals", "")>> \o RecalcEvents(deb) \o RecalcEvents(cre)]

recalculate_references(rates) ==
    LET d   == exchange_rates_to_dict(rates)
        deb == recalculate_rows(debit_entries, "debit_entries", d)
        cre == recalculate_rows(credit_entries, "credit_entries", d)
    IN [debit_entries |-> deb, credit_entries |-> cre,
        totals |-> calculate_summary_totals(deb, cre),
        trace |-> RecalcEvents(deb) \o RecalcEvents(cre) \o <<Ev("totals", "")>>]

recalculate_tables(listed, fx) ==
    LET rates == get_exchange_rates(listed, payment_currency, company_currency, fx)
        refs  == recalculate_references(rates)
    IN [exchange_rates |-> rates,
        debit_entries |-> refs.debit_entries, credit_entries |-> refs.credit_entries,
        totals |-> refs.totals,
        trace |-> RateEvents(rates) \o refs.trace]

-----------------------------------------------------------------------------
(* allocate_amount_to_references *)

\* The loop of allocate_rows with the amount left never reduced.
RECURSIVE allocate_rows_undiminished(_, _, _, _, _)
allocate_rows_undiminished(entries, allocated_oustanding, flag, parentfield, rates_dict) ==
    IF entries = <<>> THEN <<>>
    ELSE LET ent == Head(entries)
             amount ==
                 IF flag /\ allocated_oustanding > 0
                 THEN IF ent.voucher_payment_amount >= allocated_oustanding
                      THEN allocated_oustanding
                      ELSE ent.voucher_payment_amount
                 ELSE 0
         IN <<recalculate_amounts([ent EXCEPT !.allocated_amount = amount],
                                  parentfield, rates_dict)>>
              \o allocate_rows_undiminished(Tail(entries), allocated_oustanding, flag,
                                            parentfield, rates_dict)

RECURSIVE allocate_rows(_, _, _, _, _)
allocate_rows(entries, allocated_oustanding, flag, parentfield, rates_dict) ==
    IF entries = <<>> THEN <<>>
    ELSE LET ent == Head(entries)
             fill == flag /\ allocated_oustanding > 0
             amount ==
                 IF fill
                 THEN IF ent.voucher_payment_amount >= allocated_oustanding
                      THEN allocated_oustanding
                      ELSE ent.voucher_payment_amount
                 ELSE 0
             left == IF fill THEN allocated_oustanding - flt(amount)
                     ELSE allocated_oustanding
         IN <<recalculate_amounts([ent EXCEPT !.allocated_amount = amount],
                                  parentfield, rates_dict)>>
              \o allocate_rows(Tail(entries), left, flag, parentfield, rates_dict)

total_outstanding(entries) == sum(Column(entries, "voucher_payment_amount"))

\* allocate_amount_to_references filling each table up to its own total.
allocate_amount_to_references_each_total ==
    LET d   == exchange_rates_to_dict(exchange_rates)
        deb == allocate_rows(debit_entries, total_outstanding(debit_entries),
                             allocate_payment_amount, "debit_entries", d)
        cre == allocate_rows(credit_entries, total_outstanding(credit_entries),
                             allocate_payment_amount, "credit_entries", d)
    IN [debit_entries |-> deb, credit_entries |-> cre,
        totals |-> calculate_summary_totals(deb, cre),
        trace |-> RecalcEvents(deb) \o RecalcEvents(cre) \o <<Ev("totals", "")>>]

allocate_amount_to_references ==
    LET total_debit_outstanding  == total_outstanding(debit_entries)
        total_credit_outstanding == total_outstanding(credit_entries)
        d   == exchange_rates_to_dict(exchange_rates)
        m   == Min(total_debit_outstanding, total_credit_outstanding)
        deb == allocate_rows(debit_entries, m, allocate_payment_amount,
                             "debit_entries", d)
        cre == allocate_rows(credit_entries, m, allocate_payment_amount,
                             "credit_entries", d)
    IN [debit_entries |-> deb, credit_entries |-> cre,
        totals |-> calculate_summary_totals(deb, cre),
        trace |->
            (IF total_debit_outstanding > total_credit_outstanding
             THEN RecalcEvents(cre) \o RecalcEvents(deb)
             ELSE RecalcEvents(deb) \o RecalcEvents(cre))
                \o <<Ev("totals", "")>>]

-----------------------------------------------------------------------------
(* add_reference_doc_details, for a Sales Invoice or a Purchase Invoice *)

InvoiceDocs == {v \in AllInvoices : v.voucher_type # "Journal Entry"}

Matching(entries, voucher_type, voucher_number) ==
    {i \in DOMAIN entries :
        /\ entries[i].voucher_number = voucher_number
        /\ entries[i].voucher_type = voucher_type}

add_reference_doc_details(reference_type, ref_doc, fx) ==
    LET reference_entries ==
            IF reference_type = "debit_entries" THEN debit_entries ELSE credit_entries
        rates == add_invoice_currency_exchange_rate(exchange_rates, ref_doc.currency,
                     payment_currency, company_currency, fx)
        d == exchange_rates_to_dict(rates)
        party_account_currency ==
            IF ref_doc.voucher_type = "Sales Invoice"
            THEN customer_account_currency ELSE supplier_account_currency
        found == Matching(reference_entries, ref_doc.voucher_type, ref_doc.voucher_no)
        first == CHOOSE i \in found : \A j \in found : i <= j
        changed ==
            [reference_entries EXCEPT ![first] =
                set_reference_entry_details(reference_entries[first], ref_doc,
                    reference_type, party_account_currency, company_currency, d)]
        deb == IF reference_type = "debit_entries" THEN changed ELSE debit_entries
        cre == IF reference_type = "debit_entries" THEN credit_entries ELSE changed
        rate_trace == SubSeq(RateEvents(rates), Len(exchange_rates) + 1, Len(rates))
    IN IF Cardinality(found) > 1
       THEN [error |-> "is already present", exchange_rates |-> rates,
             debit_entries |-> debit_entries, credit_entries |-> credit_entries,
             totals |-> StoredTotals, trace |-> rate_trace]
       ELSE IF found = {}
       THEN [error |-> "", exchange_rates |-> rates,
             debit_entries |-> debit_entries, credit_entries |-> credit_entries,
             totals |-> StoredTotals, trace |-> rate_trace]
       ELSE [error |-> "", exchange_rates |-> rates,
             debit_entries |-> deb, credit_entries |-> cre,
             totals |-> calculate_summary_totals(deb, cre),
             trace |-> rate_trace
                 \o <<Ev("recalc", ref_doc.currency), Ev("totals", "")>>]

-----------------------------------------------------------------------------
(* validate *)

customer_account == "Debtors"
supplier_account == "Creditors"

\* validate_customer_supplier_account asking for the payment currency to be the
\* account currency also when that is the company currency.
validate_customer_supplier_account_strict ==
    IF /\ customer # ""
       /\ supplier # ""
       /\ customer_account_currency # supplier_account_currency
    THEN "Customer account currency and supplier account currency should be same"
    ELSE IF /\ customer_account_currency # ""
            /\ customer_account_currency # payment_currency
    THEN "Payment currency should be same as Customer/Supplier account currency"
    ELSE ""

validate_customer_supplier_account ==
    LET customer_supplier_currency == customer_account_currency
    IN IF /\ customer # ""
          /\ supplier # ""
          /\ customer_account_currency # supplier_account_currency
       THEN "Customer account currency and supplier account currency should be same"
       ELSE IF /\ customer_supplier_currency # ""
               /\ customer_supplier_currency # payment_currency
               /\ company_currency # customer_supplier_currency
       THEN "Payment currency should be same as Customer/Supplier account currency"
       ELSE ""

valid_reference_doctypes == {"Sales Invoice", "Purchase Invoice", "Journal Entry"}

\* What the database holds of the vouchers: db[n] is "ok", or how n is unfit.
\* One voucher of each party is looked at for being unfit.
DbStates ==
    {[n \in {v.voucher_no : v \in AllInvoices} |-> IF n = bad THEN why ELSE "ok"] :
        bad \in {"SINV-1"},
        why \in {"ok", "missing", "other_account", "draft"}}

\* The checks of one row without the check of the allocated amount.
validate_reference_row_any_amount(d, db) ==
    IF d.voucher_type \notin valid_reference_doctypes
    THEN "Reference Doctype must be one of Sales Invoice, Purchase Invoice or Journal Entry"
    ELSE IF db[d.voucher_number] = "missing" THEN "does not exist"
    ELSE IF /\ d.voucher_type \in {"Sales Invoice", "Purchase Invoice"}
            /\ db[d.voucher_number] = "other_account"
    THEN "is associated with another account"
    ELSE IF db[d.voucher_number] = "draft" THEN "must be submitted"
    ELSE ""

\* The checks of one row, in the order of the loop body.
validate_reference_row(d, db) ==
    IF d.voucher_type \notin valid_reference_doctypes
    THEN "Reference Doctype must be one of Sales Invoice, Purchase Invoice or Journal Entry"
    ELSE IF db[d.voucher_number] = "missing" THEN "does not exist"
    ELSE IF /\ d.voucher_type \in {"Sales Invoice", "Purchase Invoice"}
            /\ db[d.voucher_number] = "other_account"
    THEN "is associated with another account"
    ELSE IF db[d.voucher_number] = "draft" THEN "must be submitted"
    ELSE IF /\ flt(d.allocated_amount) > 0
            /\ flt_p(d.allocated_amount) > flt_p(d.voucher_payment_amount)
    THEN "Allocated Amount cannot be greater than outstanding amount"
    ELSE ""

RECURSIVE validate_rows(_, _)
validate_rows(rows, db) ==
    IF rows = <<>> THEN [error |-> "", trace |-> <<>>]
    ELSE LET err  == validate_reference_row(Head(rows), db)
             rest == validate_rows(Tail(rows), db)
             ev   == Ev("validate_reference", Head(rows).voucher_number)
         IN IF err # "" THEN [error |-> err, trace |-> <<ev>>]
            ELSE [error |-> rest.error, trace |-> <<ev>> \o rest.trace]

validate_reference_documents(db) ==
    validate_rows(debit_entries \o credit_entries, db)

\* self.get(field, {"allocated_amount": ["not in", [0, None, ""]]})
allocated_rows(entries) == SelectSeq(entries, LAMBDA d : d.allocated_amount # 0)

clear_unallocated_reference_document_rows ==
    [debit_entries |-> allocated_rows(debit_entries),
     credit_entries |-> allocated_rows(credit_entries)]

validate(db) ==
    LET e1   == validate_customer_supplier_account
        refs == validate_reference_documents(db)
        kept == clear_unallocated_reference_document_rows
        t1   == <<Ev("validate_customer_supplier_account", "")>>
    IN IF e1 # ""
       THEN [error |-> e1, debit_entries |-> debit_entries,
             credit_entries |-> credit_entries, trace |-> t1]
       ELSE IF refs.error # ""
       THEN [error |-> refs.error, debit_entries |-> debit_entries,
             credit_entries |-> credit_entries, trace |-> t1 \o refs.trace]
       ELSE [error |-> "", debit_entries |-> kept.debit_entries,
             credit_entries |-> kept.credit_entries,
             trace |-> t1 \o refs.trace \o <<Ev("clear", "")>>]

-----------------------------------------------------------------------------
(* General-ledger entries *)

\* AccountsController.get_gl_dict: a ledger line with both amounts zero.
get_gl_dict(account, party_type, against, account_currency) ==
    [account |-> account, party_type |-> party_type, against |-> against,
     account_currency |-> account_currency,
     against_voucher_type |-> "", against_voucher |-> "",
     debit |-> 0, credit |-> 0,
     debit_in_account_currency |-> 0, credit_in_account_currency |-> 0]

party_details(reference_type) ==
    IF reference_type = "debit_entries"
    THEN [party_type |-> "Customer", account |-> customer_account,
          account_currency |-> customer_account_currency]
    ELSE [party_type |-> "Supplier", account |-> supplier_account,
          account_currency |-> supplier_account_currency]

party_gl_entry(ent, reference_type) ==
    LET ledger_reference_type ==
            IF ent.voucher_type = "Sales Invoice" THEN "debit_entries"
            ELSE IF ent.voucher_type = "Purchase Invoice" THEN "credit_entries"
            ELSE reference_type
        details == party_details(ledger_reference_type)
        against_account ==
            IF ledger_reference_type = "debit_entries"
            THEN party_details("credit_entries").account
            ELSE party_details("debit_entries").account
        allocated_amount_in_entry_currrency ==
            ent.allocated_amount \div ent.payment_exchange_rate
        allocated_amount_in_company_currency ==
            allocated_amount_in_entry_currrency * ent.exchange_rate
        allocated_amount_in_account_currrency ==
            IF details.account_currency # company_currency
            THEN ent.allocated_amount * ent.payment_exchange_rate
            ELSE allocated_amount_in_company_currency
        gl == [get_gl_dict(details.account, details.party_type, against_account,
                           details.account_currency)
                 EXCEPT !.against_voucher_type = ent.voucher_type,
                        !.against_voucher = ent.voucher_number]
    IN IF reference_type = "debit_entries"
       THEN [gl EXCEPT
               !.credit_in_account_currency = allocated_amount_in_account_currrency,
               !.credit = allocated_amount_in_company_currency]
       ELSE [gl EXCEPT
               !.debit_in_account_currency = allocated_amount_in_account_currrency,
               !.debit = allocated_amount_in_company_currency]

add_party_gl_entries(debit, credit) ==
    [i \in DOMAIN debit |-> party_gl_entry(debit[i], "debit_entries")]
        \o [i \in DOMAIN credit |-> party_gl_entry(credit[i], "credit_entries")]

\* The company's exchange gain/loss account: not set, or its root type.
GainLossAccounts == {"", "Expense", "Income"}

\* The ledger line of the exchange gain/loss account, given its root type.
gain_loss_gl_entry(account_root_type) ==
    LET gl == get_gl_dict("Exchange Gain/Loss", "", "", company_currency)
        on_credit ==
            IF account_root_type = "Expense"
            THEN total_gain_loss > 0
            ELSE ~(total_gain_loss > 0)
    IN IF on_credit
       THEN [gl EXCEPT !.credit_in_account_currency = abs(total_gain_loss),
                       !.credit = abs(total_gain_loss)]
       ELSE [gl EXCEPT !.debit_in_account_currency = abs(total_gain_loss),
                       !.debit = abs(total_gain_loss)]

make_gl_entries(debit, credit, account_root_type) ==
    IF account_root_type = ""
    THEN [error |-> "Exchange gain loss account not set", gl_entries |-> <<>>,
          trace |-> <<>>]
    ELSE [error |-> "",
          gl_entries |-> Append(add_party_gl_entries(debit, credit),
                                gain_loss_gl_entry(account_root_type)),
          trace |-> <<Ev("gl", "")>>]

\* on_submit without its check of the difference amount.
on_submit_unchecked(debit, credit, account_root_type) ==
    make_gl_entries(debit, credit, account_root_type)

on_submit(debit, credit, account_root_type) ==
    IF difference_amount # 0
    THEN [error |-> "Difference Amount must be zero", gl_entries |-> <<>>,
          trace |-> <<>>]
    ELSE make_gl_entries(debit, credit, account_root_type)

on_cancel(account_root_type) ==
    make_gl_entries(debit_entries, credit_entries, account_root_type)

-----------------------------------------------------------------------------
(* The document and its handlers *)

Header(cu, su, cac, sac, pay, base) ==
    [customer |-> cu, supplier |-> su, customer_account_currency |-> cac,
     supplier_account_currency |-> sac, payment_currency |-> pay,
     company_currency |-> base]

\* Documents of a customer and a supplier of a company that keeps its books in
\* INR: the party accounts and the payment in INR or in USD.
Headers ==
    {Header("CUST-1", "SUPP-1", a, a, pay, "INR") :
        a \in Currencies, pay \in Currencies}

\* Any document the form can send: the currencies of the accounts, of the
\* payment and of the company differ or not, a party is set or not.
CompleteHeaders ==
    {Header("CUST-1", "SUPP-1", cac, sac, pay, base) :
        cac \in Currencies, sac \in Currencies, pay \in Currencies,
        base \in Currencies}

IncompleteHeaders ==
    {Header(cu, su, cac, sac, pay, base) :
        cu \in {"", "CUST-1"}, su \in {"", "SUPP-1"}, cac \in Currencies,
        sac \in Currencies, pay \in Currencies, base \in Currencies}
      \ CompleteHeaders

HasHeader(h) ==
    /\ customer = h.customer
    /\ supplier = h.supplier
    /\ customer_account_currency = h.customer_account_currency
    /\ supplier_account_currency = h.supplier_account_currency
    /\ payment_currency = h.payment_currency
    /\ company_currency = h.company_currency

HasTotals(t) ==
    /\ receivable_adjusted = t.receivable_adjusted
    /\ payable_adjusted = t.payable_adjusted
    /\ total_balance = t.total_balance
    /\ total_gain_loss = t.total_gain_loss
    /\ difference_amount = t.difference_amount

\* A new document: no rows, no rates, every total zero.
Init ==
    /\ \E h \in Headers : HasHeader(h)
    /\ allocate_payment_amount = FALSE
    /\ debit_entries = <<>>
    /\ credit_entries = <<>>
    /\ exchange_rates = <<>>
    /\ HasTotals(calculate_summary_totals(<<>>, <<>>))
    /\ docstatus = 0
    /\ gl_posted = <<>>
    /\ last = [op |-> "new", error |-> "", trace |-> <<>>]

SetTotals(t) ==
    /\ receivable_adjusted' = t.receivable_adjusted
    /\ payable_adjusted' = t.payable_adjusted
    /\ total_balance' = t.total_balance
    /\ total_gain_loss' = t.total_gain_loss
    /\ difference_amount' = t.difference_amount

Done(op, r) == last' = [op |-> op, error |-> r.error, trace |-> r.trace]

GetUnreconciledEntries ==
    /\ docstatus = 0
    /\ \E f \in Fetches :
        /\ \E listed \in CurrencyLists(f.si \o f.pi \o f.cn \o f.dn), fx \in FxTables :
            LET r == get_unreconciled_entries(f.si, f.cn, f.pi, f.dn, listed, fx)
            IN /\ allocate_payment_amount' = r.allocate_payment_amount
               /\ exchange_rates' = r.exchange_rates
               /\ debit_entries' = r.debit_entries
               /\ credit_entries' = r.credit_entries
               /\ SetTotals(r.totals)
               /\ Done("get_unreconciled_entries", r)
    /\ UNCHANGED <<header, docstatus, gl_posted>>

\* The form's "allocate payment amount" checkbox.
SetAllocatePaymentAmount ==
    /\ docstatus = 0
    /\ allocate_payment_amount' = ~allocate_payment_amount
    /\ last' = [op |-> "set_allocate_payment_amount", error |-> "", trace |-> <<>>]
    /\ UNCHANGED <<header, debit_entries, credit_entries, exchange_rates, totals,
                   docstatus, gl_posted>>

AllocateAmountToReferences ==
    /\ docstatus = 0
    /\ LET r == allocate_amount_to_references
       IN /\ debit_entries' = r.debit_entries
          /\ credit_entries' = r.credit_entries
          /\ SetTotals(r.totals)
          /\ last' = [op |-> "allocate_amount_to_references", error |-> "",
                      trace |-> r.trace]
    /\ UNCHANGED <<header, allocate_payment_amount, exchange_rates, docstatus,
                   gl_posted>>

RecalculateTables ==
    /\ docstatus = 0
    /\ \E listed \in CurrencyLists(debit_entries \o credit_entries), fx \in FxTables :
        LET r == recalculate_tables(listed, fx)
        IN /\ exchange_rates' = r.exchange_rates
           /\ debit_entries' = r.debit_entries
           /\ credit_entries' = r.credit_entries
           /\ SetTotals(r.totals)
           /\ last' = [op |-> "recalculate_tables", error |-> "", trace |-> r.trace]
    /\ UNCHANGED <<header, allocate_payment_amount, docstatus, gl_posted>>

AddReferenceDocDetails ==
    /\ docstatus = 0
    /\ \E reference_type \in {"debit_entries", "credit_entries"},
          ref_doc \in InvoiceDocs, fx \in FxTables :
        LET r == add_reference_doc_details(reference_type, ref_doc, fx)
        IN /\ exchange_rates' = r.exchange_rates
           /\ debit_entries' = r.debit_entries
           /\ credit_entries' = r.credit_entries
           /\ SetTotals(r.totals)
           /\ Done("add_reference_doc_details", r)
    /\ UNCHANGED <<header, allocate_payment_amount, docstatus, gl_posted>>

\* Saving the draft runs validate.
Validate ==
    /\ docstatus = 0
    /\ \E db \in DbStates :
        LET r == validate(db)
        IN /\ debit_entries' = r.debit_entries
           /\ credit_entries' = r.credit_entries
           /\ Done("validate", r)
    /\ UNCHANGED <<header, allocate_payment_amount, exchange_rates, totals,
                   docstatus, gl_posted>>

\* Submitting runs validate and, when it passes, on_submit.
Submit ==
    /\ docstatus = 0
    /\ \E db \in DbStates, account_root_type \in GainLossAccounts :
        LET v == validate(db)
            s == on_submit(v.debit_entries, v.credit_entries, account_root_type)
        IN /\ debit_entries' = v.debit_entries
           /\ credit_entries' = v.credit_entries
           /\ IF v.error # ""
              THEN /\ Done("validate", v)
                   /\ UNCHANGED <<docstatus, gl_posted>>
              ELSE /\ last' = [op |-> "on_submit", error |-> s.error,
                               trace |-> v.trace \o s.trace]
                   /\ IF s.error # ""
                      THEN UNCHANGED <<docstatus, gl_posted>>
                      ELSE /\ docstatus' = 1
                           /\ gl_posted' = Append(gl_posted,
                                  [gl_entries |-> s.gl_entries, cancel |-> 0])
    /\ UNCHANGED <<header, allocate_payment_amount, exchange_rates, totals>>

Cancel ==
    /\ docstatus = 1
    /\ \E account_root_type \in GainLossAccounts :
        LET c == on_cancel(account_root_type)
        IN /\ Done("on_cancel", c)
           /\ IF c.error # ""
              THEN UNCHANGED <<docstatus, gl_posted>>
              ELSE /\ docstatus' = 2
                   /\ gl_posted' = Append(gl_posted,
                          [gl_entries |-> c.gl_entries, cancel |-> 1])
    /\ UNCHANGED <<header, allocate_payment_amount, debit_entries, credit_entries,
                   exchange_rates, totals>>

Next ==
    \/ GetUnreconciledEntries
    \/ SetAllocatePaymentAmount
    \/ AllocateAmountToReferences
    \/ RecalculateTables
    \/ Validate
    \/ Submit
    \/ Cancel

Spec == Init /\ [][Next]_vars

\* The handlers that write the exchange-rate table.
NextRates ==
    \/ GetUnreconciledEntries
    \/ RecalculateTables
    \/ AddReferenceDocDetails

SpecRates == Init /\ [][NextRates]_vars

-----------------------------------------------------------------------------
(* Allocation over arbitrary outstanding amounts: documents in one currency  *)
(* whose rows carry any outstanding amounts up to MaxAmt half Units.         *)

NoQuotes == [p \in FxPairs |-> 0]

OutstandingAmounts == {k * (Unit \div 2) : k \in 0..MaxAmt}

AmountLists == UNION {[1..n -> OutstandingAmounts] : n \in 0..MaxRows}

RowsOf(amounts, voucher_type, field_name, rates_dict) ==
    add_invoice_entries(
        [i \in DOMAIN amounts |->
            Invoice(voucher_type, ToString(i), "INR", 1, amounts[i])],
        field_name, "INR", "INR", rates_dict)

InitAllocate ==
    /\ HasHeader(Header("CUST-1", "SUPP-1", "INR", "INR", "INR", "INR"))
    /\ allocate_payment_amount \in BOOLEAN
    /\ exchange_rates = get_exchange_rates(<<"INR">>, "INR", "INR", NoQuotes)
    /\ \E da \in AmountLists, ca \in AmountLists :
        LET d == exchange_rates_to_dict(exchange_rates)
        IN /\ debit_entries = RowsOf(da, "Sales Invoice", "debit_entries", d)
           /\ credit_entries = RowsOf(ca, "Purchase Invoice", "credit_entries", d)
    /\ HasTotals(calculate_summary_totals(debit_entries, credit_entries))
    /\ docstatus = 0
    /\ gl_posted = <<>>
    /\ last = [op |-> "get_unreconciled_entries", error |-> "", trace |-> <<>>]

NextAllocate ==
    \/ SetAllocatePaymentAmount
    \/ AllocateAmountToReferences

SpecAllocate == InitAllocate /\ [][NextAllocate]_vars

-----------------------------------------------------------------------------
(* Documents as the form sends them to be saved or submitted: the allocated  *)
(* amounts and the voucher types are what the user entered.                  *)

form_row(voucher_type, voucher_number, outstanding, allocated, parentfield, rates_dict) ==
    recalculate_amounts(
        [new_row(Invoice(voucher_type, voucher_number, "INR", 1, outstanding))
            EXCEPT !.currency = "INR",
                   !.voucher_base_amount = outstanding,
                   !.voucher_amount = outstanding,
                   !.allocated_amount = allocated],
        parentfield, rates_dict)

\* What a user can enter against an outstanding amount of two Units.
EnteredAmounts == {0, -Unit, 2 * Unit, 2 * Unit + 1, 3 * Unit}

FormDebitRows(rates_dict) ==
    {form_row("Sales Invoice", "SINV-1", 2 * Unit, a, "debit_entries", rates_dict) :
        a \in EnteredAmounts}
      \cup {form_row("Payment Entry", "PE-1", 2 * Unit, 2 * Unit, "debit_entries",
                     rates_dict)}

FormDebitLists(rates_dict) ==
    UNION {[1..n -> FormDebitRows(rates_dict)] : n \in 0..MaxRows}

FormCreditLists(rates_dict) ==
    {<<>>,
     <<form_row("Purchase Invoice", "PINV-1", 2 * Unit, 2 * Unit, "credit_entries",
                rates_dict)>>}

InitForm ==
    /\ \/ \E h \in CompleteHeaders : HasHeader(h)
       \/ \E h \in IncompleteHeaders : HasHeader(h)
    /\ allocate_payment_amount = FALSE
    /\ exchange_rates =
           get_exchange_rates(<<"INR">>, payment_currency, company_currency, NoQuotes)
    /\ LET d == exchange_rates_to_dict(exchange_rates)
       IN /\ debit_entries \in FormDebitLists(d)
          /\ credit_entries \in FormCreditLists(d)
    /\ HasTotals(calculate_summary_totals(debit_entries, credit_entries))
    /\ docstatus = 0
    /\ gl_posted = <<>>
    /\ last = [op |-> "new", error |-> "", trace |-> <<>>]

NextForm ==
    \/ Validate
    \/ Submit
    \/ Cancel

SpecForm == InitForm /\ [][NextForm]_vars

-----------------------------------------------------------------------------
(* Properties *)

Max(a, b) == IF a >= b THEN a ELSE b

AllRows == debit_entries \o credit_entries

allocated_sum(entries) == sum(Column(entries, "allocated_amount"))

TraceHas(what) == \E i \in DOMAIN last.trace : last.trace[i][1] = what

\* C1: on_submit with a non-zero difference_amount raises "Difference Amount
\* must be zero" and emits no ledger entries; a document is submitted, and its
\* ledger entries are emitted by on_submit, only with difference_amount zero.
C1_SubmitNeedsZeroDifference ==
    /\ (last.op = "on_submit" /\ difference_amount # 0) =>
          /\ last.error = "Difference Amount must be zero"
          /\ ~TraceHas("gl")
          /\ gl_posted = <<>>
          /\ docstatus = 0
    /\ (last.op = "on_submit" /\ TraceHas("gl")) => difference_amount = 0
    /\ docstatus # 0 => difference_amount = 0
    /\ gl_posted # <<>> => difference_amount = 0

C1_Witness ==
    /\ last.op = "on_submit"
    /\ difference_amount # 0
    /\ last.error = "Difference Amount must be zero"
    /\ AllRows # <<>>

\* The amount allocate_amount_to_references nets: the smaller of the two
\* totals outstanding.
Netted == Min(total_outstanding(debit_entries), total_outstanding(credit_entries))

JustAllocated == last.op = "allocate_amount_to_references"

NonNegativeOutstanding == \A i \in DOMAIN AllRows : AllRows[i].voucher_payment_amount >= 0

\* C3: with allocate_payment_amount set and no negative outstanding amount,
\* allocate_amount_to_references leaves the allocated amounts of the debit rows
\* and of the credit rows with the same sum, the smaller of the two totals
\* outstanding, and difference_amount zero.
C3_NettingExact ==
    (JustAllocated /\ allocate_payment_amount /\ NonNegativeOutstanding) =>
        /\ allocated_sum(debit_entries) = Netted
        /\ allocated_sum(credit_entries) = Netted
        /\ difference_amount = 0

C3_Witness ==
    /\ JustAllocated
    /\ allocate_payment_amount
    /\ Netted > 0
    /\ allocated_sum(debit_entries) = Netted
    /\ total_outstanding(debit_entries) > total_outstanding(credit_entries)
    /\ Len(debit_entries) > 1
    /\ Len(credit_entries) > 1

\* The outstanding amount of the rows of a table before row i.
outstanding_before(entries, i) ==
    sum(Column(SubSeq(entries, 1, i - 1), "voucher_payment_amount"))

GreedyFill(entries) ==
    \A i \in DOMAIN entries :
        /\ entries[i].allocated_amount =
               Min(entries[i].voucher_payment_amount,
                   Max(0, Netted - outstanding_before(entries, i)))
        /\ 0 <= entries[i].allocated_amount
        /\ entries[i].allocated_amount <= entries[i].voucher_payment_amount

Partial(ent) ==
    0 < ent.allocated_amount /\ ent.allocated_amount < ent.voucher_payment_amount

OnePartialRow(entries) ==
    /\ Cardinality({i \in DOMAIN entries : Partial(entries[i])}) <= 1
    /\ \A i \in DOMAIN entries : Partial(entries[i]) =>
          /\ \A j \in DOMAIN entries : j < i =>
                entries[j].allocated_amount = entries[j].voucher_payment_amount
          /\ \A j \in DOMAIN entries : j > i => entries[j].allocated_amount = 0

\* C9: with allocate_payment_amount set and no negative outstanding amount,
\* allocate_amount_to_references fills each table greedily in list order: row i
\* gets min(its outstanding, max(0, M - outstanding of the rows before it)), M
\* the smaller of the two totals; so every allocation lies between zero and the
\* row's outstanding, and at most one row per table is partially allocated, the
\* rows before it in full and the rows after it not at all.
C9_GreedyFill ==
    (JustAllocated /\ allocate_payment_amount /\ NonNegativeOutstanding) =>
        /\ GreedyFill(debit_entries)
        /\ GreedyFill(credit_entries)
        /\ OnePartialRow(debit_entries)
        /\ OnePartialRow(credit_entries)

C9_Witness ==
    /\ JustAllocated
    /\ allocate_payment_amount
    /\ Len(debit_entries) > 1
    /\ Partial(debit_entries[1])
    /\ debit_entries[2].voucher_payment_amount > 0
    /\ debit_entries[2].allocated_amount = 0

Fetched == last.op = "get_unreconciled_entries" /\ last.error = ""

Recalculated == last.op = "recalculate_tables"

NoDuplicateCurrency ==
    \A i, j \in DOMAIN exchange_rates :
        exchange_rates[i].currency = exchange_rates[j].currency => i = j

\* C5: no two records of exchange_rates have the same currency, whatever calls
\* of get_exchange_rates and add_invoice_currency_exchange_rate were made;
\* right after get_exchange_rates(entries), in get_entries and in
\* recalculate_tables, the currencies of exchange_rates are the currencies of
\* the entries and the payment currency, no other.
C5_RatesAreAMap ==
    /\ NoDuplicateCurrency
    /\ (Fetched \/ Recalculated) =>
          RateCurrencies(exchange_rates)
              = EntryCurrencies(AllRows) \cup {payment_currency}

C5_Witness ==
    /\ last.op = "add_reference_doc_details"
    /\ TraceHas("rate")
    /\ Len(exchange_rates) > 1
    /\ AllRows # <<>>
    /\ RateCurrencies(exchange_rates) # EntryCurrencies(AllRows) \cup {payment_currency}

RateBeforeRecalc ==
    \A j \in DOMAIN last.trace :
        last.trace[j][1] = "recalc" =>
            \E i \in 1..(j - 1) : last.trace[i] = Ev("rate", last.trace[j][2])

TotalsAfterAllRows ==
    /\ last.trace # <<>>
    /\ last.trace[Len(last.trace)] = Ev("totals", "")
    /\ Cardinality({j \in DOMAIN last.trace : last.trace[j][1] = "totals"}) = 1
    /\ Cardinality({j \in DOMAIN last.trace : last.trace[j][1] = "recalc"})
           = Len(AllRows)

\* C6: in get_unreconciled_entries and in recalculate_tables the exchange-rate
\* record of a row's currency is created before the row's amounts are
\* recalculated; the summary totals are computed once, after every row of both
\* tables has been recalculated; no ledger entry is emitted while fetching,
\* allocating or recalculating: the ledger is first written by on_submit.
C6_Pipeline ==
    /\ [](/\ (Fetched \/ Recalculated) => RateBeforeRecalc
          /\ (Fetched \/ Recalculated \/ JustAllocated) =>
                TotalsAfterAllRows /\ ~TraceHas("gl")
          /\ TraceHas("gl") => last.op \in {"on_submit", "on_cancel"}
          /\ gl_posted # <<>> => gl_posted[1].cancel = 0)
    /\ [][gl_posted' # gl_posted =>
            /\ last'.op \in {"on_submit", "on_cancel"}
            /\ gl_posted = <<>> => last'.op = "on_submit"]_vars

C6_Witness ==
    /\ Recalculated
    /\ Len(debit_entries) > 1
    /\ Len(credit_entries) > 1
    /\ Len(exchange_rates) > 1
    /\ RateBeforeRecalc
    /\ TotalsAfterAllRows

AllZero ==
    /\ \A i \in DOMAIN AllRows : AllRows[i].allocated_amount = 0
    /\ receivable_adjusted = 0
    /\ payable_adjusted = 0
    /\ difference_amount = 0

\* C10: get_unreconciled_entries sets allocate_payment_amount to false; a run
\* of allocate_amount_to_references with the flag false sets allocated_amount
\* to zero on every row of both tables, which makes receivable_adjusted,
\* payable_adjusted and difference_amount zero, and they stay zero for as long
\* as the flag stays false.
C10_FetchResetsAllocation ==
    /\ [](/\ last.op = "get_unreconciled_entries" => ~allocate_payment_amount
          /\ (JustAllocated /\ ~allocate_payment_amount) => AllZero)
    /\ [][(AllZero /\ ~allocate_payment_amount /\ ~allocate_payment_amount')
            => AllZero']_vars

C10_Witness ==
    /\ JustAllocated
    /\ ~allocate_payment_amount
    /\ Len(debit_entries) > 1
    /\ Len(credit_entries) > 1
    /\ AllZero

Submitted == docstatus = 1 /\ gl_posted # <<>>

\* C2: the ledger entries of a submitted document balance: the debits of the
\* party entries and of the exchange gain/loss entry sum to the same amount, in
\* company currency, as their credits, whatever the sign of total_gain_loss and
\* the root type of the exchange gain/loss account.
C2_LedgerBalanced ==
    Submitted =>
        sum(Column(gl_posted[1].gl_entries, "debit"))
            = sum(Column(gl_posted[1].gl_entries, "credit"))

AfterTotalsHandler ==
    last.op \in {"get_unreconciled_entries", "allocate_amount_to_references",
                 "recalculate_tables", "validate"}

\* C4: after get_unreconciled_entries, allocate_amount_to_references,
\* recalculate_tables and validate, in any sequence, the stored totals are
\* those of the rows: receivable_adjusted and payable_adjusted the sums of
\* allocated_amount over the debit and the credit rows, difference_amount the
\* distance between the two, total_gain_loss the sum of gain_loss_amount over
\* both tables, total_balance the distance between the sums of the balances.
C4_TotalsAgreeWithRows ==
    AfterTotalsHandler =>
        /\ receivable_adjusted = allocated_sum(debit_entries)
        /\ payable_adjusted = allocated_sum(credit_entries)
        /\ difference_amount = abs(receivable_adjusted - payable_adjusted)
        /\ total_gain_loss = sum(Column(AllRows, "gain_loss_amount"))
        /\ total_balance =
               abs(sum(Column(debit_entries, "balance"))
                     - sum(Column(credit_entries, "balance")))

RanValidate == last.op \in {"validate", "on_submit"}

ValidatePassed ==
    \/ last.op = "validate" /\ last.error = ""
    \/ last.op = "on_submit"

\* C7 as stated: after validate succeeds every row left has a non-zero
\* allocated amount that does not exceed its outstanding amount, and a voucher
\* type among Sales Invoice, Purchase Invoice and Journal Entry.
C7_RowsWithinOutstanding ==
    ValidatePassed =>
        \A i \in DOMAIN AllRows :
            /\ AllRows[i].allocated_amount # 0
            /\ AllRows[i].allocated_amount <= AllRows[i].voucher_payment_amount
            /\ AllRows[i].voucher_type \in valid_reference_doctypes

\* A positive allocated amount that, at the precision of the field, is greater
\* than the outstanding amount at the precision of its field.
Exceeds(d) ==
    /\ d.allocated_amount > 0
    /\ flt_p(d.allocated_amount) > flt_p(d.voucher_payment_amount)

CountEvents(trace, what) == Cardinality({j \in DOMAIN trace : trace[j][1] = what})

\* C7, amended: after validate succeeds every row left has a non-zero allocated
\* amount, a voucher type among Sales Invoice, Purchase Invoice and Journal
\* Entry and, when the allocated amount is positive, an allocated amount that
\* rounded to the field precision does not exceed the outstanding amount rounded
\* to the field precision; a row whose positive allocated amount is greater than
\* its outstanding amount at that precision makes validate raise and leaves the
\* rows as they are; rows are cleared only after every row has been checked.
C7_RowsWithinRoundedOutstanding ==
    /\ [](ValidatePassed =>
            \A i \in DOMAIN AllRows :
                /\ AllRows[i].allocated_amount # 0
                /\ AllRows[i].voucher_type \in valid_reference_doctypes
                /\ ~Exceeds(AllRows[i]))
    /\ [][(/\ last' # last
           /\ last'.op \in {"validate", "on_submit"}
           /\ \E i \in DOMAIN AllRows : Exceeds(AllRows[i]))
            => /\ last'.op = "validate"
               /\ last'.error # ""
               /\ ~(\E j \in DOMAIN last'.trace : last'.trace[j][1] = "clear")
               /\ debit_entries' = debit_entries
               /\ credit_entries' = credit_entries]_vars
    /\ [][(debit_entries' # debit_entries \/ credit_entries' # credit_entries)
            => /\ CountEvents(last'.trace, "validate_reference") = Len(AllRows)
               /\ \A j \in DOMAIN last'.trace :
                     last'.trace[j][1] = "validate_reference" =>
                        \E k \in DOMAIN last'.trace :
                            k > j /\ last'.trace[k][1] = "clear"
               /\ \A i \in DOMAIN AllRows :
                     /\ AllRows[i].voucher_type \in valid_reference_doctypes
                     /\ ~Exceeds(AllRows[i])]_vars

C7_Witness ==
    /\ last.op = "validate"
    /\ last.error = ""
    /\ Len(debit_entries) = 1
    /\ credit_entries # <<>>
    /\ debit_entries[1].allocated_amount > debit_entries[1].voucher_payment_amount
    /\ CountEvents(last.trace, "validate_reference") > 2

AccountErrors ==
    {"Customer account currency and supplier account currency should be same",
     "Payment currency should be same as Customer/Supplier account currency"}

AccountCheckPassed == RanValidate /\ last.error \notin AccountErrors

\* C8 as stated: a document passes validate_customer_supplier_account only if
\* the customer and the supplier account currency are the same and the payment
\* currency is that account currency.
C8_SameCurrencies ==
    AccountCheckPassed =>
        /\ customer_account_currency = supplier_account_currency
        /\ payment_currency = customer_account_currency

AccountsAgree ==
    /\ customer = "" \/ supplier = ""
          \/ customer_account_currency = supplier_account_currency
    /\ \/ customer_account_currency = ""
       \/ customer_account_currency = payment_currency
       \/ customer_account_currency = company_currency

\* C8, amended: a document passes validate_customer_supplier_account only if
\* the customer and the supplier account currency are the same whenever both
\* parties are set, and the customer account currency is the payment currency
\* or the company currency; otherwise InvalidAdjustmentEntry is raised, and
\* validate checks no reference and clears no row.
C8_CurrenciesAgree ==
    /\ [](RanValidate =>
            /\ (last.error \notin AccountErrors) <=> AccountsAgree
            /\ last.error \in AccountErrors =>
                  last.trace = <<Ev("validate_customer_supplier_account", "")>>)
    /\ [][(last' # last /\ last'.op = "validate" /\ last'.error \in AccountErrors)
            => /\ debit_entries' = debit_entries
               /\ credit_entries' = credit_entries]_vars

C8_Witness ==
    /\ last.op = "validate"
    /\ last.error
           = "Payment currency should be same as Customer/Supplier account currency"
    /\ customer_account_currency = supplier_account_currency
    /\ \E i \in DOMAIN AllRows : AllRows[i].allocated_amount = 0

====
